---- MODULE Spec2Model ----
(***************************************************************************)
(* Model of src/server/parser.py: the recursive-descent ExpressionParser   *)
(* (a cursor over a character sequence plus an explicit call stack) and    *)
(* the TemplateParser stages (collect, expressions, tags, closures).       *)
(*                                                                         *)
(* Text is a sequence of one-character strings; positions are 0-based as   *)
(* in the source, so the character at cursor p of e is e[p + 1].           *)
(***************************************************************************)
EXTENDS Integers, Sequences, FiniteSets, TLC

VARIABLES
    expression,     \* ExpressionParser.expression (stripped)
    pos,            \* ExpressionParser.pos
    errors,         \* ExpressionParser.errors: sequence of [pos, msg]
    stack,          \* the call stack of the recursive descent (top = last)
    ret,            \* value returned by the call that returned last
    pstatus,        \* "none" | "new" | "running" | "done"
    result,         \* what ExpressionParser.parse returned: [is_valid, error_msg]
    list_elements,  \* TemplateParser.list_elements (shared with the parser)
    loop_variables, \* TemplateParser.loop_variables
    content,        \* TemplateParser.content, as a sequence of lexical items
    pc,             \* position of TemplateParser.parse
    idx,            \* index of the current regex match in the running loop
    attr_idx,       \* _validate_tag_attributes: index of the current attribute match
    lists,          \* heap of diagnostic list objects
    diagnostics,    \* TemplateParser.diagnostics: a reference into lists
    returned,       \* references returned by the calls of parse, in order
    events,         \* _validate_tag_closures: events
    tag_stack       \* _validate_tag_closures: tag_stack

pvars == <<expression, pos, errors, stack, ret, pstatus, result>>
tvars == <<list_elements, loop_variables, content, pc, idx, attr_idx, lists,
           diagnostics, returned, events, tag_stack>>
vars == <<expression, pos, errors, stack, ret, pstatus, result, list_elements,
          loop_variables, content, pc, idx, attr_idx, lists, diagnostics, returned,
          events, tag_stack>>

(***************************************************************************)
(* Bounds of the model.                                                    *)
(***************************************************************************)
MaxPostfix == 3
MaxItems == 3
MaxTags == 4
MaxParseCalls == 2

(***************************************************************************)
(* Characters and strings.                                                 *)
(***************************************************************************)
Digits == {"0", "1", "2", "3", "4", "5", "6", "7", "8", "9"}

Letters ==
    {"a", "b", "c", "d", "e", "f", "g", "h", "i", "j", "k", "l", "m", "n", "o",
     "p", "q", "r", "s", "t", "u", "v", "w", "x", "y", "z", "A", "B", "C", "D",
     "E", "F", "G", "H", "I", "J", "K", "L", "M", "N", "O", "P", "Q", "R", "S",
     "T", "U", "V", "W", "X", "Y", "Z"}

IsSpace(c) == c \in {" ", "\t", "\n", "\r"}

IsDigit(c) == c \in Digits

IsAlnum(c) == c \in Letters \cup Digits

IsIdentChar(c) == IsAlnum(c) \/ c = "_"

\* the Python string a character sequence stands for
RECURSIVE Str(_)
Str(s) == IF s = <<>> THEN "" ELSE Head(s) \o Str(Tail(s))

\* sep.join(parts)
RECURSIVE Join(_, _)
Join(sep, parts) ==
    IF parts = <<>> THEN <<>>
    ELSE IF Len(parts) = 1 THEN parts[1]
    ELSE parts[1] \o sep \o Join(sep, Tail(parts))

\* s.split(sep) for a one-character separator
RECURSIVE Split(_, _)
Split(s, sep) ==
    IF \A i \in 1..Len(s) : s[i] # sep THEN <<s>>
    ELSE LET k == CHOOSE i \in 1..Len(s) :
                      s[i] = sep /\ \A j \in 1..(i - 1) : s[j] # sep
         IN <<SubSeq(s, 1, k - 1)>> \o Split(SubSeq(s, k + 1, Len(s)), sep)

RECURSIVE LStrip(_)
LStrip(s) == IF s # <<>> /\ IsSpace(Head(s)) THEN LStrip(Tail(s)) ELSE s

RECURSIVE RStrip(_)
RStrip(s) ==
    IF s # <<>> /\ IsSpace(s[Len(s)]) THEN RStrip(SubSeq(s, 1, Len(s) - 1)) ELSE s

Strip(s) == RStrip(LStrip(s))

\* names used by the documents and expressions of the model
s_items == <<"i", "t", "e", "m", "s">>

s_x == <<"x">>

s_selected == <<"s", "e", "l", "e", "c", "t", "e", "d">>

s_selectedValue == <<"s", "e", "l", "e", "c", "t", "e", "d", "V", "a", "l", "u", "e">>

s_list == <<"l", "i", "s", "t">>

s_variable == <<"v", "a", "r", "i", "a", "b", "l", "e">>

s_condition == <<"c", "o", "n", "d", "i", "t", "i", "o", "n">>

(***************************************************************************)
(* Messages.  A message is the format string of the source together with   *)
(* the values substituted into it.                                         *)
(***************************************************************************)
Msg(fmt) ==
    [prefix |-> "", fmt |-> fmt, func_name |-> "", element_path |-> "",
     ch |-> "", at |-> -1, tag_name |-> "", attr_name |-> ""]

None == Msg("")

SINGLE_ELEMENT_FUNCTIONS == {"selectedValue", "selectedName", "selected"}

(***************************************************************************)
(* ExpressionParser: scanning helpers.  Each returns the new cursor.       *)
(***************************************************************************)
RECURSIVE SkipWhitespace(_, _)
SkipWhitespace(e, p) ==
    IF p < Len(e) /\ IsSpace(e[p + 1]) THEN SkipWhitespace(e, p + 1) ELSE p

Match(e, p, c) ==
    LET q == SkipWhitespace(e, p)
    IN IF q < Len(e) /\ e[q + 1] = c
       THEN [ok |-> TRUE, pos |-> q + 1]
       ELSE [ok |-> FALSE, pos |-> q]

\* a match that reports the operator without moving the cursor past it
MatchOperatorPeek(e, p, op) ==
    LET q == SkipWhitespace(e, p)
        hi == IF q + Len(op) <= Len(e) THEN q + Len(op) ELSE Len(e)
    IN [ok |-> q < Len(e) /\ SubSeq(e, q + 1, hi) = op, pos |-> q]

MatchOperator(e, p, op) ==
    LET q == SkipWhitespace(e, p)
        hi == IF q + Len(op) <= Len(e) THEN q + Len(op) ELSE Len(e)
    IN IF q < Len(e) /\ SubSeq(e, q + 1, hi) = op
       THEN [ok |-> TRUE, pos |-> q + Len(op)]
       ELSE [ok |-> FALSE, pos |-> q]

\* sorted(ops, key=len, reverse=True): stable, longest first
RECURSIVE LongestFirstFrom(_, _)
LongestFirstFrom(ops, n) ==
    IF n = 0 THEN <<>>
    ELSE SelectSeq(ops, LAMBDA o : Len(o) = n) \o LongestFirstFrom(ops, n - 1)

MaxOpLen(ops) ==
    IF ops = <<>> THEN 0
    ELSE CHOOSE n \in {Len(ops[i]) : i \in 1..Len(ops)} :
             \A i \in 1..Len(ops) : Len(ops[i]) <= n

LongestFirst(ops) == LongestFirstFrom(ops, MaxOpLen(ops))

RECURSIVE MatchFirst(_, _, _)
MatchFirst(e, p, ops) ==
    IF ops = <<>> THEN [ok |-> FALSE, pos |-> p]
    ELSE LET m == MatchOperator(e, p, Head(ops))
         IN IF m.ok THEN m ELSE MatchFirst(e, m.pos, Tail(ops))

MatchAnyOperator(e, p, ops) == MatchFirst(e, p, LongestFirst(ops))

Expect(e, p, c) ==
    LET q == SkipWhitespace(e, p)
    IN IF q >= Len(e) \/ e[q + 1] # c
       THEN [ok |-> FALSE, pos |-> q,
             msg |-> [Msg("Expected '{ch}' at position {self.pos}")
                        EXCEPT !.ch = c, !.at = q]]
       ELSE [ok |-> TRUE, pos |-> q + 1, msg |-> None]

RECURSIVE ScanIdentifier(_, _)
ScanIdentifier(e, p) ==
    IF p < Len(e) /\ IsIdentChar(e[p + 1]) THEN ScanIdentifier(e, p + 1) ELSE p

ParseIdentifier(e, p) ==
    LET q == SkipWhitespace(e, p)
    IN IF q >= Len(e) \/ ~IsIdentChar(e[q + 1])
       THEN [ok |-> FALSE, pos |-> q, id |-> <<>>,
             msg |-> [Msg("Expected identifier at position {self.pos}")
                        EXCEPT !.at = q]]
       ELSE LET r == ScanIdentifier(e, q)
            IN [ok |-> TRUE, pos |-> r, id |-> SubSeq(e, q + 1, r), msg |-> None]

RECURSIVE ScanString(_, _)
ScanString(e, p) ==
    IF p < Len(e) /\ e[p + 1] # "\""
    THEN IF e[p + 1] = "\\" /\ p + 1 < Len(e)
         THEN ScanString(e, p + 2)
         ELSE ScanString(e, p + 1)
    ELSE p

ParseStringLiteral(e, p) ==
    LET open == Expect(e, p, "\"")
    IN IF ~open.ok THEN open
       ELSE Expect(e, ScanString(e, open.pos), "\"")

RECURSIVE ParseNumberLiteral(_, _)
ParseNumberLiteral(e, p) ==
    IF p < Len(e) /\ (IsDigit(e[p + 1]) \/ e[p + 1] = ".")
    THEN ParseNumberLiteral(e, p + 1)
    ELSE p

(***************************************************************************)
(* ExpressionParser: the recursive descent.  A frame is one activation of  *)
(* a _parse_* method: fn names the method, st the place it has reached,    *)
(* chain and func are the locals element_chain and func_name of            *)
(* _parse_postfix_expression (<<>> stands for None / the empty list).      *)
(***************************************************************************)
Frame(fn, st) == [fn |-> fn, st |-> st, chain |-> <<>>, func |-> <<>>]

Top == stack[Len(stack)]

Pop == SubSeq(stack, 1, Len(stack) - 1)

Running(fn) == pstatus = "running" /\ stack # <<>> /\ Top.fn = fn

\* the method goes on: cursor p, call stack s, last returned value r
Continue(p, s, r) ==
    /\ pos' = p
    /\ stack' = s
    /\ ret' = r
    /\ pstatus' = "running"
    /\ UNCHANGED <<expression, result>>

\* a raise that no except clause catches: the exception leaves parse
RaiseUncaught(p, msg) ==
    /\ pos' = p
    /\ stack' = <<>>
    /\ pstatus' = "raised"
    /\ UNCHANGED <<expression, ret, errors, result>>

\* raise ValueError(msg): unwinds to the except clause of parse (line 110)
Raise(p, msg) ==
    /\ pos' = p
    /\ stack' = <<>>
    /\ pstatus' = "done"
    /\ result' = [is_valid |-> FALSE, error_msg |-> msg]
    /\ UNCHANGED <<expression, ret, errors>>

\* ExpressionParser.__init__
NewParser(text) ==
    /\ expression' = Strip(text)
    /\ pos' = 0
    /\ errors' = <<>>
    /\ stack' = <<>>
    /\ ret' = <<>>
    /\ pstatus' = "new"
    /\ result' = [is_valid |-> TRUE, error_msg |-> None]

\* parse, up to the call of _parse_expression
ParseBegin ==
    /\ pstatus = "new"
    /\ IF expression = <<>>
       THEN /\ pstatus' = "done"
            /\ result' = [is_valid |-> TRUE, error_msg |-> None]
            /\ UNCHANGED <<expression, pos, errors, stack, ret>>
       ELSE /\ pstatus' = "running"
            /\ stack' = <<Frame("expression", "start")>>
            /\ UNCHANGED <<expression, pos, errors, ret, result>>
    /\ UNCHANGED tvars

\* a parse that rejects input left after the cursor
ParseReturnWholeInput ==
    /\ pstatus = "running"
    /\ stack = <<>>
    /\ pstatus' = "done"
    /\ result' = IF SkipWhitespace(expression, pos) < Len(expression)
                 THEN [is_valid |-> FALSE, error_msg |-> Msg("Unexpected input")]
                 ELSE IF errors # <<>>
                 THEN [is_valid |-> FALSE, error_msg |-> errors[1].msg]
                 ELSE [is_valid |-> TRUE, error_msg |-> None]
    /\ UNCHANGED <<expression, pos, errors, stack, ret>>
    /\ UNCHANGED tvars

\* parse, after _parse_expression returned
ParseReturn ==
    /\ pstatus = "running"
    /\ stack = <<>>
    /\ pstatus' = "done"
    /\ result' = IF errors # <<>>
                 THEN [is_valid |-> FALSE, error_msg |-> errors[1].msg]
                 ELSE [is_valid |-> TRUE, error_msg |-> None]
    /\ UNCHANGED <<expression, pos, errors, stack, ret>>
    /\ UNCHANGED tvars

ParseExpression ==
    /\ Running("expression")
    /\ IF Top.st = "start"
       THEN Continue(pos, Pop \o <<Frame("expression", "return"), Frame("or", "start")>>, ret)
       ELSE Continue(pos, Pop, ret)
    /\ UNCHANGED <<errors, tvars>>

\* one binary tier: parse an operand, then loop while an operator matches
BinaryTier(fn, m, operand) ==
    /\ Running(fn)
    /\ IF Top.st = "start"
       THEN Continue(pos, Pop \o <<Frame(fn, "loop"), Frame(operand, "start")>>, ret)
       ELSE IF m.ok
            THEN Continue(m.pos, stack \o <<Frame(operand, "start")>>, ret)
            ELSE Continue(m.pos, Pop, ret)
    /\ UNCHANGED <<errors, tvars>>

ParseOrExpression ==
    BinaryTier("or", MatchOperator(expression, pos, <<"|", "|">>), "and")

ParseAndExpression ==
    BinaryTier("and", MatchOperator(expression, pos, <<"&", "&">>), "comparison")

ComparisonOps == << <<"=", "=">>, <<"!", "=">>, <<"<">>, <<"<", "=">>, <<">">>, <<">", "=">> >>

ParseComparisonExpression ==
    BinaryTier("comparison", MatchAnyOperator(expression, pos, ComparisonOps), "additive")

ParseAdditiveExpression ==
    BinaryTier("additive", MatchAnyOperator(expression, pos, << <<"+">>, <<"-">> >>),
               "multiplicative")

ParseMultiplicativeExpression ==
    BinaryTier("multiplicative",
               MatchAnyOperator(expression, pos, << <<"*">>, <<"/">>, <<"%">> >>), "unary")

ParseUnaryExpression ==
    /\ Running("unary")
    /\ IF Top.st = "start"
       THEN LET m == MatchOperator(expression, pos, <<"!">>)
            IN IF m.ok
               THEN Continue(m.pos, Pop \o <<Frame("unary", "return"), Frame("unary", "start")>>, ret)
               ELSE Continue(m.pos, Pop \o <<Frame("unary", "return"), Frame("postfix", "start")>>, ret)
       ELSE Continue(pos, Pop, ret)
    /\ UNCHANGED <<errors, tvars>>

\* the text of a list-misuse error
ListError(fmt, func_name, path) ==
    [Msg(fmt) EXCEPT !.func_name = Str(func_name), !.element_path = Str(path)]

FmtListElement ==
    "Cannot call '{func_name}()' on list element '{element_path}'. Use a loop variable instead."

FmtListPrefix ==
    "Cannot call '{func_name}()' on list element '{prefix}'. Use a loop variable to iterate over the list first."

\* a check of the whole receiver path only, without its leading prefixes
CheckListFunctionCallExact(errs, p, ls, element_path, func_name) ==
    IF element_path \in ls
    THEN Append(errs, [pos |-> p, msg |-> ListError(FmtListElement, func_name, element_path)])
    ELSE errs

\* _check_list_function_call: the errors list after the call
CheckListFunctionCall(errs, p, ls, element_path, func_name) ==
    IF element_path \in ls
    THEN Append(errs, [pos |-> p, msg |-> ListError(FmtListElement, func_name, element_path)])
    ELSE LET parts == Split(element_path, ".")
             Prefix(i) == Join(<<".">>, SubSeq(parts, 1, i))
             hits == {i \in 1..Len(parts) : Prefix(i) \in ls}
         IN IF hits = {} THEN errs
            ELSE LET i == CHOOSE k \in hits : \A j \in hits : k <= j
                 IN Append(errs, [pos |-> p,
                                  msg |-> ListError(FmtListPrefix, func_name, Prefix(i))])

\* _parse_postfix_expression, after _expect(')') of a call: the errors list
AfterCall(errs, p, ls, chain, func_name) ==
    IF func_name # <<>> /\ Str(func_name) \in SINGLE_ELEMENT_FUNCTIONS /\ Len(chain) > 1
    THEN CheckListFunctionCall(errs, p, ls,
                               Join(<<".">>, SubSeq(chain, 1, Len(chain) - 1)), func_name)
    ELSE errs

\* element_chain after a call or an index: reset
ChainAfterReset(chain) == <<>>

ParsePostfixExpression ==
    /\ Running("postfix")
    /\ CASE Top.st = "start" ->
              /\ Continue(pos, Pop \o <<Frame("postfix", "primary"), Frame("primary", "start")>>, ret)
              /\ UNCHANGED errors
         [] Top.st = "primary" ->
              /\ Continue(pos, Pop \o <<[Frame("postfix", "loop") EXCEPT
                                           !.chain = IF ret # <<>> THEN <<ret>> ELSE <<>>]>>, ret)
              /\ UNCHANGED errors
         [] Top.st = "loop" ->
              LET call == Match(expression, pos, "(")
                  index == Match(expression, call.pos, "[")
                  dot == Match(expression, index.pos, ".")
                  member == ParseIdentifier(expression, dot.pos)
              IN /\ UNCHANGED errors
                 /\ IF call.ok
                    THEN Continue(call.pos,
                                  Pop \o <<[Top EXCEPT !.st = "call",
                                              !.func = IF Top.chain # <<>>
                                                       THEN Top.chain[Len(Top.chain)] ELSE <<>>],
                                           Frame("arguments", "start")>>, ret)
                    ELSE IF index.ok
                    THEN Continue(index.pos,
                                  Pop \o <<[Top EXCEPT !.st = "index"], Frame("expression", "start")>>,
                                  ret)
                    ELSE IF dot.ok
                    THEN IF member.ok
                         THEN Continue(member.pos,
                                       Pop \o <<[Top EXCEPT !.chain = Append(Top.chain, member.id)]>>,
                                       member.id)
                         ELSE Raise(member.pos, member.msg)
                    ELSE Continue(dot.pos, Pop, ret)
         [] Top.st = "call" ->
              LET close == Expect(expression, pos, ")")
              IN IF close.ok
                 THEN /\ errors' = AfterCall(errors, close.pos, list_elements, Top.chain, Top.func)
                      /\ Continue(close.pos,
                                  Pop \o <<[Top EXCEPT !.st = "loop", !.func = <<>>,
                                              !.chain = ChainAfterReset(Top.chain)]>>, ret)
                 ELSE Raise(close.pos, close.msg)
         [] Top.st = "index" ->
              LET close == Expect(expression, pos, "]")
              IN IF close.ok
                 THEN /\ UNCHANGED errors
                      /\ Continue(close.pos,
                                  Pop \o <<[Top EXCEPT !.st = "loop",
                                              !.chain = ChainAfterReset(Top.chain)]>>, ret)
                 ELSE Raise(close.pos, close.msg)
    /\ UNCHANGED tvars

ParsePrimaryExpression ==
    /\ Running("primary")
    /\ IF Top.st = "start"
       THEN LET q == SkipWhitespace(expression, pos)
            IN IF q >= Len(expression)
               THEN Raise(q, Msg("Unexpected end of expression"))
               ELSE IF expression[q + 1] = "\""
               THEN LET s == ParseStringLiteral(expression, q)
                    IN IF s.ok THEN Continue(s.pos, Pop, <<>>) /\ UNCHANGED errors
                       ELSE Raise(s.pos, s.msg)
               ELSE IF IsDigit(expression[q + 1])
               THEN Continue(ParseNumberLiteral(expression, q), Pop, <<>>) /\ UNCHANGED errors
               ELSE IF expression[q + 1] = "("
               THEN /\ Continue(Match(expression, q, "(").pos,
                                Pop \o <<Frame("primary", "paren"), Frame("expression", "start")>>, ret)
                    /\ UNCHANGED errors
               ELSE LET id == ParseIdentifier(expression, q)
                    IN IF id.ok THEN Continue(id.pos, Pop, id.id) /\ UNCHANGED errors
                       ELSE Raise(id.pos, id.msg)
       ELSE LET close == Expect(expression, pos, ")")
            IN IF close.ok THEN Continue(close.pos, Pop, <<>>) /\ UNCHANGED errors
               ELSE Raise(close.pos, close.msg)
    /\ UNCHANGED tvars

ParseFunctionArguments ==
    /\ Running("arguments")
    /\ IF Top.st = "start"
       THEN LET q == SkipWhitespace(expression, pos)
            IN IF q < Len(expression) /\ expression[q + 1] # ")"
               THEN Continue(q, Pop \o <<Frame("arguments", "loop"), Frame("expression", "start")>>, ret)
               ELSE Continue(q, Pop, ret)
       ELSE LET comma == Match(expression, pos, ",")
            IN IF comma.ok
               THEN Continue(comma.pos, stack \o <<Frame("expression", "start")>>, ret)
               ELSE Continue(comma.pos, Pop, ret)
    /\ UNCHANGED <<errors, tvars>>

ParserStep ==
    \/ ParseBegin
    \/ ParseExpression
    \/ ParseOrExpression
    \/ ParseAndExpression
    \/ ParseComparisonExpression
    \/ ParseAdditiveExpression
    \/ ParseMultiplicativeExpression
    \/ ParseUnaryExpression
    \/ ParsePostfixExpression
    \/ ParsePrimaryExpression
    \/ ParseFunctionArguments
    \/ ParseReturn

(***************************************************************************)
(* TemplateParser: the document.  The content is a sequence of lexical     *)
(* items: literal text, an opening tag <wr-name attr='value' ...>, a       *)
(* closing tag </wr-name>, an expression span %text%.  Literal text,       *)
(* attribute values and span texts hold none of the characters < > % and   *)
(* quotes that delimit another item, so each regular expression of the     *)
(* source matches exactly the items of its kind, in document order.        *)
(***************************************************************************)
VALID_TAGS ==
    {"wr-if", "wr-then", "wr-else", "wr-switch", "wr-case", "wr-default",
     "wr-for", "wr-break", "wr-variable", "wr-append", "wr-clear",
     "wr-return", "wr-error", "wr-conditional", "wr-cond", "wr-comment"}

TAG_ATTRIBUTES ==
    [tag \in VALID_TAGS |->
        CASE tag = "wr-if" -> {"condition"}
          [] tag = "wr-then" -> {}
          [] tag = "wr-else" -> {}
          [] tag = "wr-switch" -> {"value"}
          [] tag = "wr-case" -> {"value"}
          [] tag = "wr-default" -> {}
          [] tag = "wr-for" -> {"list", "string", "times", "variable", "count", "index"}
          [] tag = "wr-break" -> {"condition"}
          [] tag = "wr-variable" -> {"name", "value"}
          [] tag = "wr-append" -> {"name", "value"}
          [] tag = "wr-clear" -> {"name"}
          [] tag = "wr-return" -> {"value"}
          [] tag = "wr-error" -> {"condition", "message"}
          [] tag = "wr-conditional" -> {"condition"}
          [] tag = "wr-cond" -> {"condition"}
          [] tag = "wr-comment" -> {}]

\* the no-close set with wr-cond left out
NO_CLOSE_TAGS_Ten ==
    {"wr-then", "wr-else", "wr-case", "wr-default", "wr-variable", "wr-append",
     "wr-clear", "wr-break", "wr-return", "wr-error"}

NO_CLOSE_TAGS ==
    {"wr-then", "wr-else", "wr-case", "wr-default", "wr-variable", "wr-append",
     "wr-clear", "wr-break", "wr-return", "wr-error", "wr-cond"}

Text(text) == [kind |-> "text", name |-> <<>>, attrs |-> <<>>, text |-> text]

Span(text) == [kind |-> "span", name |-> <<>>, attrs |-> <<>>, text |-> text]

Open(name, attrs) == [kind |-> "open", name |-> name, attrs |-> attrs, text |-> <<>>]

Close(name) == [kind |-> "close", name |-> name, attrs |-> <<>>, text |-> <<>>]

Attr(name, quote, value) == [name |-> name, quote |-> quote, value |-> value]

AttrText(a) == a.name \o <<"=", a.quote>> \o a.value \o <<a.quote>>

\* the text between the tag name and the closing > (group 2 of the tag pattern)
RECURSIVE AttributesStr(_)
AttributesStr(attrs) ==
    IF attrs = <<>> THEN <<>>
    ELSE <<" ">> \o AttrText(Head(attrs)) \o AttributesStr(Tail(attrs))

\* 'wr-' + match.group(1)
TagName(item) == <<"w", "r", "-">> \o item.name

ItemText(item) ==
    CASE item.kind = "text" -> item.text
      [] item.kind = "span" -> <<"%">> \o item.text \o <<"%">>
      [] item.kind = "open" -> <<"<">> \o TagName(item) \o AttributesStr(item.attrs) \o <<">">>
      [] item.kind = "close" -> <<"<", "/">> \o TagName(item) \o <<">">>

RECURSIVE DocumentText(_)
DocumentText(items) ==
    IF items = <<>> THEN <<>> ELSE ItemText(Head(items)) \o DocumentText(Tail(items))

\* match.start() of the i-th item
Offset(items, i) == Len(DocumentText(SubSeq(items, 1, i - 1)))

\* the indexes of the items of the given kinds, in document order
RECURSIVE Matches(_, _, _)
Matches(items, kinds, i) ==
    IF i > Len(items) THEN <<>>
    ELSE (IF items[i].kind \in kinds THEN <<i>> ELSE <<>>) \o Matches(items, kinds, i + 1)

\* match.start() of attribute k within the attributes string
AttrStart(attrs, k) == Len(AttributesStr(SubSeq(attrs, 1, k - 1))) + 1

\* match.start(2): group 2 takes part in the single-quote alternative only
ValueStart(attrs, k) ==
    IF attrs[k].quote = "'" THEN AttrStart(attrs, k) + Len(attrs[k].name) + 2 ELSE -1

(***************************************************************************)
(* TemplateParser: positions and diagnostics.                              *)
(***************************************************************************)
Min(a, b) == IF a <= b THEN a ELSE b

\* _get_line_column: the loop runs over the first min(pos, len) characters (over
\* none when that is negative) and counts the newlines and the characters after
\* the last of them
GetLineColumn(text, p) ==
    LET n == IF Min(p, Len(text)) < 0 THEN 0 ELSE Min(p, Len(text))
        newlines == {i \in 1..n : text[i] = "\n"}
        last == IF newlines = {} THEN 0
                ELSE CHOOSE i \in newlines : \A j \in newlines : j <= i
    IN [line |-> Cardinality(newlines), column |-> n - last]

Diagnostic(text, p, width, severity, message, code) ==
    LET at == GetLineColumn(text, p)
    IN [range |-> [start |-> [line |-> at.line, character |-> at.column],
                   end |-> [line |-> at.line, character |-> at.column + width]],
        severity |-> severity, message |-> message, code |-> code]

\* whether position a comes before position b in the document
Before(a, b) == a.line < b.line \/ (a.line = b.line /\ a.character < b.character)

RECURSIVE SortByStart(_)
SortByStart(ds) ==
    IF ds = <<>> THEN <<>>
    ELSE LET first == CHOOSE i \in 1..Len(ds) :
                          /\ \A j \in 1..Len(ds) : ~Before(ds[j].range.start, ds[i].range.start)
                          /\ \A j \in 1..(i - 1) : Before(ds[i].range.start, ds[j].range.start)
         IN <<ds[first]>> \o SortByStart(SubSeq(ds, 1, first - 1) \o SubSeq(ds, first + 1, Len(ds)))

\* an append that keeps the list sorted by document position
AppendDiagnosticsSorted(ds) == lists' = [lists EXCEPT ![diagnostics] = SortByStart(@ \o ds)]

\* self.diagnostics.append(d) for each d of ds
AppendDiagnostics(ds) == lists' = [lists EXCEPT ![diagnostics] = @ \o ds]

\* one list-function-error diagnostic per entry of parser.get_errors()
ListFunctionErrors(text, p, width, errs) ==
    [i \in 1..Len(errs) |->
        Diagnostic(text, p, width, 1, errs[i].msg, "list-function-error")]

\* the parser object is dropped
DropParser ==
    /\ pstatus' = "none"
    /\ expression' = <<>>
    /\ pos' = 0
    /\ errors' = <<>>
    /\ stack' = <<>>
    /\ ret' = <<>>
    /\ result' = [is_valid |-> TRUE, error_msg |-> None]

(***************************************************************************)
(* TemplateParser.parse and its stages.                                    *)
(***************************************************************************)
EndsWith(s, suffix) ==
    Len(s) >= Len(suffix) /\ SubSeq(s, Len(s) - Len(suffix) + 1, Len(s)) = suffix

\* re.search(key=['"]([^'"]+)['"]): the first attribute it matches, 0 for none
SearchAttr(attrs, key) ==
    LET hits == {k \in 1..Len(attrs) : EndsWith(attrs[k].name, key) /\ attrs[k].value # <<>>}
    IN IF hits = {} THEN 0 ELSE CHOOSE k \in hits : \A j \in hits : k <= j

\* the matches of <wr-for\s+([^>]*)>
IsForMatch(item) == item.kind = "open" /\ item.name = <<"f", "o", "r">> /\ item.attrs # <<>>

RECURSIVE CollectFrom(_, _, _, _)
CollectFrom(items, i, ls, lv) ==
    IF i > Len(items) THEN [list_elements |-> ls, loop_variables |-> lv]
    ELSE IF ~IsForMatch(items[i]) THEN CollectFrom(items, i + 1, ls, lv)
    ELSE LET attrs == items[i].attrs
             list_match == SearchAttr(attrs, s_list)
             var_match == SearchAttr(attrs, s_variable)
             ls2 == IF list_match # 0 THEN ls \cup {attrs[list_match].value} ELSE ls
             lv2 == IF var_match # 0 /\ list_match # 0
                    THEN (attrs[var_match].value :> attrs[list_match].value) @@ lv
                    ELSE lv
         IN CollectFrom(items, i + 1, ls2, lv2)

\* the current list object emptied in place instead of a new one
ClearedDiagnostics(heap, current) ==
    [lists |-> [heap EXCEPT ![current] = <<>>], diagnostics |-> current]

\* the fresh containers parse binds at its start
FreshDiagnostics(heap, current) == [lists |-> Append(heap, <<>>), diagnostics |-> Len(heap) + 1]

FreshListElements(ls) == {}

ParseStart ==
    /\ pc = "ready"
    /\ Len(returned) < MaxParseCalls
    /\ lists' = FreshDiagnostics(lists, diagnostics).lists
    /\ diagnostics' = FreshDiagnostics(lists, diagnostics).diagnostics
    /\ list_elements' = FreshListElements(list_elements)
    /\ loop_variables' = <<>>
    /\ pc' = "collect"
    /\ UNCHANGED <<content, idx, attr_idx, returned, events, tag_stack>>
    /\ UNCHANGED pvars

CollectListElements ==
    /\ pc = "collect"
    /\ LET c == CollectFrom(content, 1, list_elements, loop_variables)
       IN /\ list_elements' = c.list_elements
          /\ loop_variables' = c.loop_variables
    /\ pc' = "expressions"
    /\ idx' = 1
    /\ UNCHANGED <<content, attr_idx, lists, diagnostics, returned, events, tag_stack>>
    /\ UNCHANGED pvars

\* _validate_expressions: the next match of %([^%]*)%, up to parser.parse()
ValidateExpressions ==
    /\ pc = "expressions"
    /\ LET spans == Matches(content, {"span"}, 1)
       IN IF idx > Len(spans)
          THEN /\ pc' = "tags"
               /\ idx' = 1
               /\ UNCHANGED pvars
          ELSE IF content[spans[idx]].text = <<>>
          THEN /\ idx' = idx + 1
               /\ UNCHANGED <<pc, pvars>>
          ELSE /\ NewParser(content[spans[idx]].text)
               /\ pc' = "expression"
               /\ UNCHANGED idx
    /\ UNCHANGED <<list_elements, loop_variables, content, attr_idx, lists, diagnostics,
                   returned, events, tag_stack>>

\* the diagnostics of one span, given what its parser reported
ExpressionDiagnostics(text, start_pos, expr, res, errs) ==
    (IF ~res.is_valid
     THEN <<Diagnostic(text, start_pos, Len(expr) + 2, 1,
                       [res.error_msg EXCEPT !.prefix = "Expression error: "], "expr-error")>>
     ELSE <<>>)
    \o ListFunctionErrors(text, start_pos, Len(expr) + 2, errs)

\* _validate_expressions: after parser.parse() returned
ReportExpression ==
    /\ pc = "expression"
    /\ pstatus = "done"
    /\ LET spans == Matches(content, {"span"}, 1)
           i == spans[idx]
       IN AppendDiagnostics(ExpressionDiagnostics(DocumentText(content), Offset(content, i),
                                                  content[i].text, result, errors))
    /\ DropParser
    /\ idx' = idx + 1
    /\ pc' = "expressions"
    /\ UNCHANGED <<list_elements, loop_variables, content, attr_idx, diagnostics, returned,
                   events, tag_stack>>

\* the diagnostic of a tag name outside the vocabulary
UnknownTag(text, start_pos, tag_name) ==
    IF Str(tag_name) \notin VALID_TAGS
    THEN <<Diagnostic(text, start_pos, Len(tag_name) + 2, 1,
                      [Msg("Unknown tag: {tag_name}") EXCEPT !.tag_name = Str(tag_name)],
                      "unknown-tag")>>
    ELSE <<>>

\* no continue: the attributes of an unknown tag are checked as well
SkipsAttributesNever(tag_name) == FALSE

\* the continue of the unknown-tag branch: no attribute checking
SkipsAttributes(tag_name) == Str(tag_name) \notin VALID_TAGS

\* _validate_tags: the next match of <wr-(\w+)([^>]*)>
ValidateTags ==
    /\ pc = "tags"
    /\ LET tags == Matches(content, {"open"}, 1)
       IN IF idx > Len(tags)
          THEN /\ pc' = "closures"
               /\ UNCHANGED <<idx, attr_idx, lists>>
          ELSE LET tag_name == TagName(content[tags[idx]])
               IN /\ AppendDiagnostics(UnknownTag(DocumentText(content),
                                                  Offset(content, tags[idx]), tag_name))
                  /\ IF SkipsAttributes(tag_name)
                     THEN /\ idx' = idx + 1
                          /\ UNCHANGED <<pc, attr_idx>>
                     ELSE /\ pc' = "attributes"
                          /\ attr_idx' = 1
                          /\ UNCHANGED idx
    /\ UNCHANGED <<list_elements, loop_variables, content, diagnostics, returned, events,
                   tag_stack>>
    /\ UNCHANGED pvars

\* self.TAG_ATTRIBUTES.get(tag_name, [])
ValidAttrs(tag_name) ==
    IF Str(tag_name) \in DOMAIN TAG_ATTRIBUTES THEN TAG_ATTRIBUTES[Str(tag_name)] ELSE {}

\* the attribute check of one attribute match
UnknownAttribute(text, start_pos, item, k) ==
    LET a == item.attrs[k]
    IN IF Str(a.name) \notin ValidAttrs(TagName(item))
       THEN <<Diagnostic(text, start_pos + AttrStart(item.attrs, k), Len(a.name), 2,
                         [Msg("Unknown attribute '{attr_name}' for tag '{tag_name}'")
                            EXCEPT !.attr_name = Str(a.name), !.tag_name = Str(TagName(item))],
                         "unknown-attribute")>>
       ELSE <<>>

\* _validate_tag_attributes: the next attribute match, up to parser.parse()
ValidateTagAttributes ==
    /\ pc = "attributes"
    /\ LET tags == Matches(content, {"open"}, 1)
           item == content[tags[idx]]
       IN IF attr_idx > Len(item.attrs)
          THEN /\ pc' = "tags"
               /\ idx' = idx + 1
               /\ UNCHANGED <<attr_idx, lists, pvars>>
          ELSE LET a == item.attrs[attr_idx]
               IN /\ AppendDiagnostics(UnknownAttribute(DocumentText(content),
                                                        Offset(content, tags[idx]), item, attr_idx))
                  /\ IF a.name = s_condition /\ a.value # <<>>
                     THEN /\ NewParser(a.value)
                          /\ pc' = "condition"
                          /\ UNCHANGED <<idx, attr_idx>>
                     ELSE /\ attr_idx' = attr_idx + 1
                          /\ UNCHANGED <<pc, idx, pvars>>
    /\ UNCHANGED <<list_elements, loop_variables, content, diagnostics, returned, events,
                   tag_stack>>

\* the diagnostics of one condition attribute, given what its parser reported
ConditionDiagnostics(text, value_pos, attr_value, res, errs) ==
    (IF ~res.is_valid
     THEN <<Diagnostic(text, value_pos, Len(attr_value), 1,
                       [res.error_msg EXCEPT !.prefix = "Condition syntax error: "],
                       "condition-syntax-error")>>
     ELSE <<>>)
    \o ListFunctionErrors(text, value_pos, Len(attr_value), errs)

\* _validate_tag_attributes: after parser.parse() returned
ReportCondition ==
    /\ pc = "condition"
    /\ pstatus = "done"
    /\ LET tags == Matches(content, {"open"}, 1)
           item == content[tags[idx]]
       IN AppendDiagnostics(
              ConditionDiagnostics(DocumentText(content),
                                   Offset(content, tags[idx]) + ValueStart(item.attrs, attr_idx),
                                   item.attrs[attr_idx].value, result, errors))
    /\ DropParser
    /\ attr_idx' = attr_idx + 1
    /\ pc' = "attributes"
    /\ UNCHANGED <<list_elements, loop_variables, content, idx, diagnostics, returned, events,
                   tag_stack>>

\* events.sort(key=position): stable insertion of e into a sorted sequence
RECURSIVE InsertByPos(_, _)
InsertByPos(sorted, e) ==
    IF sorted = <<>> THEN <<e>>
    ELSE IF sorted[Len(sorted)].pos <= e.pos THEN Append(sorted, e)
    ELSE Append(InsertByPos(SubSeq(sorted, 1, Len(sorted) - 1), e), sorted[Len(sorted)])

RECURSIVE SortByPos(_)
SortByPos(es) ==
    IF es = <<>> THEN <<>>
    ELSE InsertByPos(SortByPos(SubSeq(es, 1, Len(es) - 1)), es[Len(es)])

\* the events of the matches of one pattern, in match order
EventsOf(items, type, kind) ==
    LET ms == Matches(items, {kind}, 1)
    IN [k \in 1..Len(ms) |->
          [type |-> type, tag_name |-> TagName(items[ms[k]]), pos |-> Offset(items, ms[k])]]

\* _validate_tag_closures: collecting and sorting the events
ScanTagEvents ==
    /\ pc = "closures"
    /\ events' = SortByPos(EventsOf(content, "open", "open") \o EventsOf(content, "close", "close"))
    /\ tag_stack' = <<>>
    /\ idx' = 1
    /\ pc' = "events"
    /\ UNCHANGED <<list_elements, loop_variables, content, attr_idx, lists, diagnostics,
                   returned>>
    /\ UNCHANGED pvars

\* an opening event that is pushed whatever its name
StackAfterOpenAlways(st, tag_name, p) == Append(st, [tag_name |-> tag_name, pos |-> p])

\* the stack after an opening event
StackAfterOpen(st, tag_name, p) ==
    IF Str(tag_name) \notin NO_CLOSE_TAGS
    THEN Append(st, [tag_name |-> tag_name, pos |-> p])
    ELSE st

\* whether a closing event is looked up in the stack at all
ClosingIsChecked(tag_name) == Str(tag_name) \notin NO_CLOSE_TAGS

\* a strict last-in-first-out lookup: only the top entry can match
FindMatchingTopOnly(st, tag_name) ==
    IF st # <<>> /\ st[Len(st)].tag_name = tag_name THEN Len(st) ELSE 0

\* a lookup from the bottom of the stack: the oldest entry of that name
FindMatchingFirst(st, tag_name) ==
    LET hits == {i \in 1..Len(st) : st[i].tag_name = tag_name}
    IN IF hits = {} THEN 0 ELSE CHOOSE i \in hits : \A j \in hits : i <= j

\* the index of the entry a closing event removes, 0 when there is none
FindMatching(st, tag_name) ==
    LET hits == {i \in 1..Len(st) : st[i].tag_name = tag_name}
    IN IF hits = {} THEN 0 ELSE CHOOSE i \in hits : \A j \in hits : j <= i

\* tag_stack.pop(i)
PopAt(st, i) == SubSeq(st, 1, i - 1) \o SubSeq(st, i + 1, Len(st))

\* _validate_tag_closures: one event of the loop
ProcessTagEvent ==
    /\ pc = "events"
    /\ idx <= Len(events)
    /\ LET e == events[idx]
           i == FindMatching(tag_stack, e.tag_name)
       IN IF e.type = "open"
          THEN /\ tag_stack' = StackAfterOpen(tag_stack, e.tag_name, e.pos)
               /\ UNCHANGED lists
          ELSE IF ~ClosingIsChecked(e.tag_name)
          THEN UNCHANGED <<tag_stack, lists>>
          ELSE IF i # 0
          THEN /\ tag_stack' = PopAt(tag_stack, i)
               /\ UNCHANGED lists
          ELSE /\ AppendDiagnostics(
                    <<Diagnostic(DocumentText(content), e.pos, Len(e.tag_name) + 3, 1,
                                 [Msg("Closing tag '{tag_name}' without matching opening tag")
                                    EXCEPT !.tag_name = Str(e.tag_name)],
                                 "unmatched-closing-tag")>>)
               /\ UNCHANGED tag_stack
    /\ idx' = idx + 1
    /\ UNCHANGED <<list_elements, loop_variables, content, pc, attr_idx, diagnostics, returned,
                   events>>
    /\ UNCHANGED pvars

\* one unclosed-tag diagnostic per entry left on the stack, bottom first
UnclosedDiagnostics(text, st) ==
    [i \in 1..Len(st) |->
        Diagnostic(text, st[i].pos, Len(st[i].tag_name) + 2, 1,
                   [Msg("Unclosed tag '{tag_name}'") EXCEPT !.tag_name = Str(st[i].tag_name)],
                   "unclosed-tag")]

\* _validate_tag_closures: after the last event
ReportUnclosedTags ==
    /\ pc = "events"
    /\ idx > Len(events)
    /\ AppendDiagnostics(UnclosedDiagnostics(DocumentText(content), tag_stack))
    /\ pc' = "return"
    /\ UNCHANGED <<list_elements, loop_variables, content, idx, attr_idx, diagnostics,
                   returned, events, tag_stack>>
    /\ UNCHANGED pvars

\* parse: return self.diagnostics
ParseFinish ==
    /\ pc = "return"
    /\ returned' = Append(returned, diagnostics)
    /\ pc' = "ready"
    /\ UNCHANGED <<list_elements, loop_variables, content, idx, attr_idx, lists, diagnostics,
                   events, tag_stack>>
    /\ UNCHANGED pvars

(***************************************************************************)
(* Documents.                                                              *)
(***************************************************************************)
t_if == <<"i", "f">>

t_for == <<"f", "o", "r">>

t_then == <<"t", "h", "e", "n">>

t_foo == <<"f", "o", "o">>

ExprMisuseValue == <<"i", "t", "e", "m", "s", ".", "s", "e", "l", "e", "c", "t", "e", "d", "V", "a", "l", "u", "e", "(", ")">>

ExprMisuse == <<"i", "t", "e", "m", "s", ".", "s", "e", "l", "e", "c", "t", "e", "d", "(", ")">>

ExprSyntaxError == <<"a", "=", "=">>

ItemPool ==
    {Open(t_for, <<Attr(s_list, "'", s_items), Attr(s_variable, "'", s_x)>>),
     Span(ExprMisuseValue),
     Span(ExprSyntaxError),
     Open(t_if, <<Attr(s_condition, "'", ExprSyntaxError)>>),
     Open(t_if, <<Attr(s_x, "'", <<"1">>), Attr(s_condition, "\"", ExprMisuse)>>),
     Open(t_foo, <<Attr(s_condition, "'", ExprSyntaxError)>>),
     Close(t_if),
     Text(<<"\n">>)}

TagPool ==
    {Open(t_if, <<>>), Open(t_for, <<>>), Open(t_then, <<>>),
     Close(t_if), Close(t_for), Close(t_then)}

\* the sequences of at most n items of pool
RECURSIVE Sequences(_, _)
Sequences(pool, n) ==
    IF n = 0 THEN {<<>>}
    ELSE LET shorter == Sequences(pool, n - 1)
         IN shorter \cup {Append(d, item) : d \in shorter, item \in pool}

\* a TemplateParser constructed on a document
Constructed(documents) ==
    /\ content \in documents
    /\ list_elements = {}
    /\ loop_variables = <<>>
    /\ lists = << <<>> >>
    /\ diagnostics = 1
    /\ returned = <<>>
    /\ pc = "ready"
    /\ idx = 0
    /\ attr_idx = 0
    /\ events = <<>>
    /\ tag_stack = <<>>
    /\ expression = <<>>
    /\ pos = 0
    /\ errors = <<>>
    /\ stack = <<>>
    /\ ret = <<>>
    /\ pstatus = "none"
    /\ result = [is_valid |-> TRUE, error_msg |-> None]

Init == Constructed(Sequences(ItemPool, MaxItems))

Next ==
    \/ ParseStart
    \/ CollectListElements
    \/ ValidateExpressions
    \/ ReportExpression
    \/ ValidateTags
    \/ ValidateTagAttributes
    \/ ReportCondition
    \/ ScanTagEvents
    \/ ProcessTagEvent
    \/ ReportUnclosedTags
    \/ ParseFinish
    \/ ParserStep

Spec == Init /\ [][Next]_vars

\* documents of tags without attributes: no parser is ever constructed
InitClosure == Constructed(Sequences(TagPool, MaxTags))

NextClosure ==
    \/ ParseStart
    \/ CollectListElements
    \/ ValidateExpressions
    \/ ValidateTags
    \/ ValidateTagAttributes
    \/ ScanTagEvents
    \/ ProcessTagEvent
    \/ ReportUnclosedTags
    \/ ParseFinish

SpecClosure == InitClosure /\ [][NextClosure]_vars

(***************************************************************************)
(* Inputs of the expression parser: postfix chains (a base followed by up  *)
(* to MaxPostfix member accesses, calls and indexes) and a list of         *)
(* expressions that exercise every tier, literal and failure.              *)
(***************************************************************************)
Bases == {s_items, s_x, s_selected, <<"\"", "s", "\"">>, <<"(", "x", ")">>}

PostOps == {<<".">> \o s_items, <<".">> \o s_x, <<".">> \o s_selected, <<"(", ")">>, <<"[", "0", "]">>}

RECURSIVE Chains(_)
Chains(n) ==
    IF n = 0 THEN Bases
    ELSE LET shorter == Chains(n - 1)
         IN shorter \cup {c \o o : c \in shorter, o \in PostOps}

OtherExpressions ==
    {<<"a", " ", "|", "|", " ", "b", " ", "&", "&", " ", "c", " ", "=", "=", " ", "d", " ", "+", " ", "e", " ", "*", " ", "!", "f">>,
     <<"f", "(", "a", ",", " ", "b", ")", "[", "1", "]", ".", "g">>,
     <<"a", ">", "=", "b">>,
     <<"a", "<", "=", "b">>,
     <<"1", " ", "+", " ", "2">>,
     <<"a", "=", "=">>,
     <<"\"", "s">>,
     <<"\"", "\\">>,
     <<"(", "a">>,
     <<"f", "(", "a">>,
     <<"a", "[", "1">>,
     <<"a", ".">>,
     <<" ">>,
     <<"a", " ", "b">>,
     <<"a", "=", "b">>,
     <<"a", ")">>,
     <<"i", "t", "e", "m", "s", ".", "s", "e", "l", "e", "c", "t", "e", "d", "(", "i", "t", "e", "m", "s", ".", "s", "e", "l", "e", "c", "t", "e", "d", "V", "a", "l", "u", "e", "(", ")", ")">>,
     <<"!", "i", "t", "e", "m", "s", ".", "s", "e", "l", "e", "c", "t", "e", "d", "N", "a", "m", "e", "(", ")">>,
     <<" ", "i", "t", "e", "m", "s", " ", ".", " ", "s", "e", "l", "e", "c", "t", "e", "d", " ", "(", " ", ")", " ">>,
     <<"\"", "a", "\\", "\"", "b", "\"">>,
     <<"1", ".", "2", ".", "3">>,
     <<"a", " ", "!", "=", " ", "b", " ", "-", " ", "c", " ", "/", " ", "d", " ", "%", " ", "e", " ", "<", " ", "f", " ", ">", " ", "g">>,
     <<"(", "i", "t", "e", "m", "s", ".", "x", ")", ".", "s", "e", "l", "e", "c", "t", "e", "d", "(", ")">>,
     <<"f", "(", "i", "t", "e", "m", "s", ".", "x", ".", "s", "e", "l", "e", "c", "t", "e", "d", "(", ")", ",", " ", "i", "t", "e", "m", "s", ".", "s", "e", "l", "e", "c", "t", "e", "d", "(", ")", ")">>}

ExpressionPool == Chains(MaxPostfix) \cup OtherExpressions

ListElementPool ==
    {{}, {s_items}, {s_items \o <<".">> \o s_x}, {s_x, s_items \o <<".">> \o s_x}}

\* the TemplateParser is not running
TemplateIdle ==
    /\ loop_variables = <<>>
    /\ content = <<>>
    /\ pc = "none"
    /\ idx = 0
    /\ attr_idx = 0
    /\ lists = <<>>
    /\ diagnostics = 0
    /\ returned = <<>>
    /\ events = <<>>
    /\ tag_stack = <<>>

\* an ExpressionParser constructed on an expression of the pool
InitExpr ==
    /\ \E text \in ExpressionPool :
          /\ expression = Strip(text)
          /\ pos = 0
          /\ errors = <<>>
          /\ stack = <<>>
          /\ ret = <<>>
          /\ pstatus = "new"
          /\ result = [is_valid |-> TRUE, error_msg |-> None]
    /\ list_elements \in ListElementPool
    /\ TemplateIdle

NextExpr == ParserStep

SpecExpr == InitExpr /\ [][NextExpr]_vars

(***************************************************************************)
(* Properties.                                                             *)
(***************************************************************************)
\* the list self.diagnostics refers to
Current == lists[diagnostics]

\* parse has returned and no call is running
Finished == pc = "ready" /\ returned # <<>>

IsPrefix(a, b) == Len(a) <= Len(b) /\ SubSeq(b, 1, Len(a)) = a

\* what the step appended to self.diagnostics
Appended == SubSeq(lists'[diagnostics'], Len(Current) + 1, Len(lists'[diagnostics']))

AppendsOnly == diagnostics' = diagnostics /\ IsPrefix(Current, lists'[diagnostics'])

WithCode(ds, code) == {k \in 1..Len(ds) : ds[k].code = code}

\* the range the source gives a diagnostic of width w at offset p
RangeAt(p, w) == Diagnostic(DocumentText(content), p, w, 1, None, "").range

\* the step processes a tag event
AtEvent == pc = "events" /\ idx <= Len(events)

NamesOnStack == {tag_stack[i].tag_name : i \in 1..Len(tag_stack)}

\* C1: for a document that declares the list path P with a wr-for tag and holds
\* a %...% span with a syntactically valid expression calling one single-element
\* function on P, parse emits exactly one Error diagnostic for that span, and it
\* names P and the function.
C1_OneErrorPerMisuseSpan ==
    Finished =>
        \A i \in 1..Len(content) :
            (/\ content[i].kind = "span"
             /\ content[i].text = ExprMisuseValue
             /\ s_items \in list_elements)
            => LET r == RangeAt(Offset(content, i), Len(content[i].text) + 2)
                   hits == {k \in 1..Len(Current) :
                               Current[k].severity = 1 /\ Current[k].range = r}
               IN /\ Cardinality(hits) = 1
                  /\ \A k \in hits :
                        /\ Current[k].message.element_path = "items"
                        /\ Current[k].message.func_name = "selectedValue"

\* C2, per step: a closing event of a tag outside the no-close set appends exactly
\* one unmatched-closing-tag Error if and only if no stack entry has its name, and
\* after the last event exactly one unclosed-tag Error is appended per entry still
\* on the stack, in stack order.
C2_Step ==
    /\ (AtEvent /\ events[idx].type = "close" /\ Str(events[idx].tag_name) \notin NO_CLOSE_TAGS)
       => /\ AppendsOnly
          /\ IF events[idx].tag_name \in NamesOnStack
             THEN Appended = <<>>
             ELSE /\ Len(Appended) = 1
                  /\ Appended[1].code = "unmatched-closing-tag"
                  /\ Appended[1].severity = 1
                  /\ Appended[1].message.tag_name = Str(events[idx].tag_name)
    /\ (pc = "events" /\ idx > Len(events))
       => /\ AppendsOnly
          /\ Len(Appended) = Len(tag_stack)
          /\ \A i \in 1..Len(tag_stack) :
                /\ Appended[i].code = "unclosed-tag"
                /\ Appended[i].severity = 1
                /\ Appended[i].message.tag_name = Str(tag_stack[i].tag_name)
                /\ Appended[i].range = RangeAt(tag_stack[i].pos, Len(tag_stack[i].tag_name) + 2)

\* C2, the two examples: a lone <wr-if> yields exactly one unclosed-tag Error
\* naming wr-if, a lone </wr-if> exactly one unmatched-closing-tag Error.
C2_Examples ==
    /\ (Finished /\ content = <<Open(t_if, <<>>)>>)
       => /\ Len(Current) = 1
          /\ Current[1].code = "unclosed-tag"
          /\ Current[1].message.tag_name = "wr-if"
    /\ (Finished /\ content = <<Close(t_if)>>)
       => /\ Len(Current) = 1
          /\ Current[1].code = "unmatched-closing-tag"
          /\ Current[1].message.tag_name = "wr-if"

\* C2: closing events report an unmatched closing tag exactly when no entry of
\* that name is on the stack, and every entry left at the end is reported once as
\* unclosed.
C2_ClosureDiagnostics == [][C2_Step]_vars /\ []C2_Examples

\* a closing tag was unmatched, an opening was removed by a closing and another
\* opening was left unclosed
C2_Witness ==
    /\ Finished
    /\ Len(events) = 4
    /\ \E i \in 1..Len(content) : content[i].kind = "close"
    /\ WithCode(Current, "unmatched-closing-tag") # {}
    /\ WithCode(Current, "unclosed-tag") # {}
    /\ Len(Current) = 2

\* C3, per step: a closing event that finds an entry of its name removes the most
\* recently pushed such entry only; the entries below and above keep their order
\* and no diagnostic is appended.
C3_Step ==
    (/\ AtEvent
     /\ events[idx].type = "close"
     /\ Str(events[idx].tag_name) \notin NO_CLOSE_TAGS
     /\ events[idx].tag_name \in NamesOnStack)
    => /\ lists' = lists
       /\ Len(tag_stack') = Len(tag_stack) - 1
       /\ \E i \in 1..Len(tag_stack) :
             /\ tag_stack[i].tag_name = events[idx].tag_name
             /\ \A j \in (i + 1)..Len(tag_stack) : tag_stack[j].tag_name # events[idx].tag_name
             /\ \A j \in 1..(i - 1) : tag_stack'[j] = tag_stack[j]
             /\ \A j \in i..(Len(tag_stack) - 1) : tag_stack'[j] = tag_stack[j + 1]

\* C3, the example: <wr-if><wr-for></wr-if></wr-for> has no closure diagnostics.
C3_Example ==
    (Finished /\ content = <<Open(t_if, <<>>), Open(t_for, <<>>), Close(t_if), Close(t_for)>>)
    => Current = <<>>

\* C3: a matched closing event removes exactly the nearest entry of its name and
\* leaves every other entry in place, without a diagnostic.
C3_NearestEntryRemoved == [][C3_Step]_vars /\ []C3_Example

\* the closing </wr-if> removed the entry below <wr-for>, which stays on the stack
C3_Witness ==
    /\ pc = "events"
    /\ content = <<Open(t_if, <<>>), Open(t_for, <<>>), Close(t_if), Close(t_for)>>
    /\ idx = 4
    /\ Len(tag_stack) = 1
    /\ tag_stack[1].tag_name = TagName(Open(t_for, <<>>))

\* C4, per step: an event of a no-close tag leaves the stack and the diagnostics
\* as they are.
C4_Step ==
    (AtEvent /\ Str(events[idx].tag_name) \in NO_CLOSE_TAGS)
    => /\ tag_stack' = tag_stack
       /\ lists' = lists

\* C4, whole documents: tags of the no-close set only give no closure diagnostic.
C4_NoCloseOnly ==
    (/\ Finished
     /\ \A i \in 1..Len(content) :
           content[i].kind \in {"open", "close"} /\ Str(TagName(content[i])) \in NO_CLOSE_TAGS)
    => /\ WithCode(Current, "unclosed-tag") = {}
       /\ WithCode(Current, "unmatched-closing-tag") = {}

\* C4: opening and closing events of no-close tags never touch the closure stack
\* and never produce a diagnostic.
C4_NoCloseTagsIgnored == [][C4_Step]_vars /\ []C4_NoCloseOnly

\* both an opening and a closing no-close event were passed over with an entry on
\* the stack
C4_Witness ==
    /\ pc = "events"
    /\ idx = 4
    /\ events[2].type = "open" /\ Str(events[2].tag_name) \in NO_CLOSE_TAGS
    /\ events[3].type = "close" /\ Str(events[3].tag_name) \in NO_CLOSE_TAGS
    /\ Len(tag_stack) = 1

\* the entries of the closure stack are tags that need closing
StackNeedsClosing ==
    \A i \in 1..Len(tag_stack) : Str(tag_stack[i].tag_name) \notin NO_CLOSE_TAGS

\* C5, as stated: 16 recognized tags, each with an attribute schema entry, of
\* which exactly 10 are no-close tags and exactly 6 require a closing tag.
C5_TenNoCloseTags ==
    /\ Cardinality(VALID_TAGS) = 16
    /\ VALID_TAGS \subseteq DOMAIN TAG_ATTRIBUTES
    /\ NO_CLOSE_TAGS \subseteq VALID_TAGS
    /\ Cardinality(NO_CLOSE_TAGS) = 10
    /\ Cardinality(VALID_TAGS \ NO_CLOSE_TAGS) = 6
    /\ StackNeedsClosing

\* C5, amended: 16 recognized tags, each with an attribute schema entry, of which
\* exactly 11 are no-close tags and exactly 5 (wr-if, wr-switch, wr-for,
\* wr-conditional, wr-comment) require a closing tag.
C5_ElevenNoCloseTags ==
    /\ Cardinality(VALID_TAGS) = 16
    /\ VALID_TAGS \subseteq DOMAIN TAG_ATTRIBUTES
    /\ NO_CLOSE_TAGS \subseteq VALID_TAGS
    /\ Cardinality(NO_CLOSE_TAGS) = 11
    /\ VALID_TAGS \ NO_CLOSE_TAGS =
          {"wr-if", "wr-switch", "wr-for", "wr-conditional", "wr-comment"}
    /\ StackNeedsClosing

\* three openings were processed: the no-close one was passed over, the two that
\* require closing are on the stack
C5_Witness ==
    /\ pc = "events"
    /\ idx > Len(events)
    /\ Len(events) = 3
    /\ \E i \in 1..3 : events[i].type = "open" /\ Str(events[i].tag_name) \in NO_CLOSE_TAGS
    /\ Len(tag_stack) = 2

\* a parser reported a structural grammar violation (a raised ValueError)
Structural(res) ==
    res.error_msg.fmt \in {"Unexpected end of expression",
                           "Expected identifier at position {self.pos}",
                           "Expected '{ch}' at position {self.pos}"}

\* what the report of one condition attribute appends
C6_Step ==
    (pc = "condition" /\ pstatus = "done")
    => /\ AppendsOnly
       /\ Cardinality(WithCode(Appended, "condition-syntax-error"))
             = (IF Structural(result) THEN 1 ELSE 0)
       /\ Cardinality(WithCode(Appended, "list-function-error")) = Len(errors)
       /\ Len(Appended) = Len(errors) + (IF Structural(result) THEN 1 ELSE 0)

\* C6: for a non-empty condition attribute of a recognized tag, one
\* condition-syntax-error Error is emitted only when the expression parser hit a
\* structural grammar violation, and one list-function-error Error per list-misuse
\* finding; a valid condition with list-misuse findings gets no
\* condition-syntax-error.
C6_ConditionDiagnostics == [][C6_Step]_vars

\* the document has one item that is not literal text: an opening tag of a name
\* outside the vocabulary
LoneUnknownTag(i) ==
    /\ i \in 1..Len(content)
    /\ content[i].kind = "open"
    /\ Str(TagName(content[i])) \notin VALID_TAGS
    /\ \A j \in 1..Len(content) : j # i => content[j].kind = "text"

\* C7, as stated: a document whose only markup is one opening tag of an unknown
\* name yields exactly one Error, carrying the code unknown-tag.
C7_OnlyUnknownTag ==
    \A i \in 1..Len(content) :
        (Finished /\ LoneUnknownTag(i))
        => /\ Len(Current) = 1
           /\ Current[1].code = "unknown-tag"
           /\ Current[1].severity = 1

\* C7, amended: such a document yields exactly one unknown-tag Error from the tag
\* stage and no unknown-attribute, condition-syntax-error or list-function-error,
\* followed by one unclosed-tag Error from the closure stage, which pushes the
\* unknown name like any name outside the no-close set.
C7_UnknownTagAndUnclosed ==
    \A i \in 1..Len(content) :
        (Finished /\ LoneUnknownTag(i))
        => /\ Len(Current) = 2
           /\ Current[1].code = "unknown-tag"
           /\ Current[1].severity = 1
           /\ Current[1].message.tag_name = Str(TagName(content[i]))
           /\ Current[2].code = "unclosed-tag"
           /\ Current[2].severity = 1
           /\ Current[2].message.tag_name = Str(TagName(content[i]))

\* parse returned for a lone unknown tag that carries a broken condition attribute
C7_Witness ==
    /\ Finished
    /\ \E i \in 1..Len(content) :
          /\ LoneUnknownTag(i)
          /\ \E k \in 1..Len(content[i].attrs) :
                content[i].attrs[k].name = s_condition
    /\ Len(content) > 1

\* the receiver path of the call that the step completes: the segments of the
\* chain before the called name
Receiver == SubSeq(Top.chain, 1, Len(Top.chain) - 1)

\* the called name is a single-element function and its receiver path, or a
\* leading dot-prefix of it, is a declared list element
IsListMisuse ==
    /\ Top.func # <<>>
    /\ Str(Top.func) \in SINGLE_ELEMENT_FUNCTIONS
    /\ Receiver # <<>>
    /\ \E k \in 1..Len(Receiver) : Join(<<".">>, SubSeq(Receiver, 1, k)) \in list_elements

\* the step completes a call (consumes its closing parenthesis)
CompletesCall == Running("postfix") /\ Top.st = "call" /\ pstatus' = "running"

\* the step completes an index (consumes its closing bracket)
CompletesIndex == Running("postfix") /\ Top.st = "index" /\ pstatus' = "running"

\* C8, per step: a completed call records exactly one list-misuse error if and
\* only if it is a list misuse, nothing else records one, and the chain is empty
\* after every completed call and index.
C8_Step ==
    /\ IF CompletesCall /\ IsListMisuse
       THEN /\ Len(errors') = Len(errors) + 1
            /\ IsPrefix(errors, errors')
            /\ errors'[Len(errors')].msg.func_name = Str(Top.func)
            /\ errors'[Len(errors')].msg.fmt \in {FmtListElement, FmtListPrefix}
       ELSE errors' = errors
    /\ (CompletesCall \/ CompletesIndex) => stack'[Len(stack')].chain = <<>>

\* C8, the examples: a single-element function on an indexed or a called value
\* records nothing
C8_Examples ==
    (/\ pstatus = "done"
     /\ expression \in {s_items \o <<"[", "0", "]", ".">> \o s_selected \o <<"(", ")">>,
                        s_items \o <<".", "x", "(", ")", ".">> \o s_selected \o <<"(", ")">>})
    => errors = <<>>

\* C8: a call records one list-misuse error exactly when a single-element function
\* is called on a receiver path that is, or starts with, a declared list element;
\* after a call or an index the chain starts empty, so a call on an indexed or
\* called value records none.
C8_ListMisuseRule == [][C8_Step]_vars /\ []C8_Examples

\* a single-element function was called on a member of a declared list: the error
\* names the list, a leading prefix of the receiver path
C8_Witness ==
    /\ pstatus = "done"
    /\ Len(errors) = 1
    /\ errors[1].msg.fmt = FmtListPrefix
    /\ errors[1].msg.element_path = "items"
    /\ result.is_valid = FALSE

StageOf(p) ==
    CASE p \in {"expressions", "expression"} -> 1
      [] p \in {"tags", "attributes", "condition"} -> 2
      [] p \in {"closures", "events", "return"} -> 3
      [] OTHER -> 0

StageCodes(n) ==
    CASE n = 1 -> {"expr-error", "list-function-error"}
      [] n = 2 -> {"unknown-tag", "unknown-attribute", "condition-syntax-error",
                   "list-function-error"}
      [] n = 3 -> {"unmatched-closing-tag", "unclosed-tag"}
      [] OTHER -> {}

\* C9, per step: within a call of parse the stages run in order, and every step
\* only appends diagnostics of its own stage to the end of the list.
C9_Step ==
    IF pc = "ready"
    THEN lists'[diagnostics'] = <<>>
    ELSE /\ AppendsOnly
         /\ \A k \in 1..Len(Appended) : Appended[k].code \in StageCodes(StageOf(pc))
         /\ pc' = "ready" \/ StageOf(pc') >= StageOf(pc)

\* C9, the returned list: expression diagnostics, then tag diagnostics, then
\* closure diagnostics
C9_Ordered ==
    Finished =>
        \E i, j \in 0..Len(Current) :
            /\ i <= j
            /\ \A k \in 1..i : Current[k].code \in StageCodes(1)
            /\ \A k \in (i + 1)..j : Current[k].code \in StageCodes(2)
            /\ \A k \in (j + 1)..Len(Current) : Current[k].code \in StageCodes(3)

\* C9: the returned list holds the diagnostics of the expression stage, then
\* those of the tag stage, then those of the closure stage, each in the order it
\* was appended, whatever the document positions.
C9_StageOrder == [][C9_Step]_vars /\ []C9_Ordered

\* an expression diagnostic precedes a tag diagnostic and a closure diagnostic that
\* both lie earlier in the document
C9_Witness ==
    /\ Finished
    /\ \E a, b, c \in 1..Len(Current) :
          /\ a < b /\ b < c
          /\ Current[a].code = "expr-error"
          /\ Current[b].code = "unknown-tag"
          /\ Current[c].code = "unclosed-tag"
          /\ Before(Current[b].range.start, Current[a].range.start)
          /\ Before(Current[c].range.start, Current[a].range.start)

\* C10, per step: a call starts from an empty diagnostics list, list-element set
\* and loop-variable map, and no list already returned is altered.
C10_Step ==
    /\ \A a \in 1..Len(returned) : lists'[returned[a]] = lists[returned[a]]
    /\ (pc = "ready" /\ pc' = "collect")
       => /\ lists'[diagnostics'] = <<>>
          /\ list_elements' = {}
          /\ loop_variables' = <<>>

\* C10, the results: the lists the calls returned are equal
C10_Equal ==
    \A a, b \in 1..Len(returned) : lists[returned[a]] = lists[returned[b]]

\* C10: consecutive calls of parse on the same parser return equal diagnostic
\* lists; each call starts from reset state and leaves the earlier results alone.
C10_Idempotent == [][C10_Step]_vars /\ []C10_Equal

\* two calls returned two list objects holding diagnostics, with a list and a
\* loop variable collected
C10_Witness ==
    /\ pc = "ready"
    /\ Len(returned) >= 2
    /\ returned[1] # returned[2]
    /\ Len(lists[returned[2]]) >= 2
    /\ list_elements # {}
    /\ loop_variables # <<>>

\* the weight of an activation record: more than the weights of the records that
\* replace it in a step that consumes nothing
Weight(f) ==
    CASE f.fn = "arguments" /\ f.st = "start" -> 20
      [] f.fn = "expression" /\ f.st = "start" -> 18
      [] f.fn = "or" /\ f.st = "start" -> 16
      [] f.fn = "and" /\ f.st = "start" -> 14
      [] f.fn = "comparison" /\ f.st = "start" -> 12
      [] f.fn = "additive" /\ f.st = "start" -> 10
      [] f.fn = "multiplicative" /\ f.st = "start" -> 8
      [] f.fn = "unary" /\ f.st = "start" -> 6
      [] f.fn = "postfix" /\ f.st = "start" -> 4
      [] f.fn = "postfix" /\ f.st = "primary" -> 2
      [] OTHER -> 1

RECURSIVE Potential(_)
Potential(st) == IF st = <<>> THEN 0 ELSE Weight(Head(st)) + Potential(Tail(st))

\* the step brings parse closer to its return: it starts it, ends it, consumes
\* input, or lowers the potential of the call stack
ParserAdvances ==
    \/ pstatus = "new" /\ pstatus' \in {"running", "done"}
    \/ pstatus = "running" /\ pstatus' = "done"
    \/ /\ pstatus = "running" /\ pstatus' = "running"
       /\ expression' = expression
       /\ \/ pos' > pos
          \/ pos' = pos /\ Potential(stack') < Potential(stack)

\* the non-empty spans and the condition attributes of recognized tags
SpanAt(i) == i \in 1..Len(content) /\ content[i].kind = "span" /\ content[i].text # <<>>

ConditionAt(i, k) ==
    /\ i \in 1..Len(content)
    /\ content[i].kind = "open"
    /\ Str(TagName(content[i])) \in VALID_TAGS
    /\ k \in 1..Len(content[i].attrs)
    /\ content[i].attrs[k].name = s_condition
    /\ content[i].attrs[k].value # <<>>

\* the syntax diagnostics of the given code at the given range
SyntaxAt(ds, code, r) ==
    {n \in 1..Len(ds) : ds[n].code = code /\ ds[n].range = r
                        /\ Structural([error_msg |-> ds[n].message])}

\* C11, per step: the report of a parser that raised appends exactly one syntax
\* diagnostic for its occurrence and goes on to the next match; a raise changes
\* nothing of the template parser; every loop advances by one match and is left
\* only after its last match.
C11_Step ==
    LET spans == Matches(content, {"span"}, 1)
        tags == Matches(content, {"open"}, 1)
    IN /\ (pc = "expression" /\ pstatus = "done" /\ Structural(result))
          => /\ AppendsOnly
             /\ Cardinality(WithCode(Appended, "expr-error")) = 1
             /\ Cardinality(SyntaxAt(Appended, "expr-error",
                                     RangeAt(Offset(content, spans[idx]),
                                             Len(content[spans[idx]].text) + 2))) = 1
             /\ Len(Appended) = 1 + Len(errors)
             /\ pc' = "expressions" /\ idx' = idx + 1
       /\ (pc = "condition" /\ pstatus = "done" /\ Structural(result))
          => /\ AppendsOnly
             /\ Cardinality(WithCode(Appended, "condition-syntax-error")) = 1
             /\ Cardinality(SyntaxAt(Appended, "condition-syntax-error",
                                     RangeAt(Offset(content, tags[idx])
                                                + ValueStart(content[tags[idx]].attrs, attr_idx),
                                             Len(content[tags[idx]].attrs[attr_idx].value)))) = 1
             /\ Len(Appended) = 1 + Len(errors)
             /\ pc' = "attributes" /\ attr_idx' = attr_idx + 1 /\ idx' = idx
       /\ (pstatus = "running" /\ pstatus' # "running")
          => /\ pstatus' = "done"
             /\ UNCHANGED tvars
       /\ pc = "expressions"
          => \/ pc' = "tags" /\ idx > Len(spans)
             \/ pc' = "expressions" /\ idx' = idx + 1 /\ content[spans[idx]].text = <<>>
             \/ pc' = "expression" /\ idx' = idx /\ SpanAt(spans[idx])
       /\ pc = "tags"
          => \/ pc' = "closures" /\ idx > Len(tags)
             \/ pc' = "tags" /\ idx' = idx + 1 /\ Str(TagName(content[tags[idx]])) \notin VALID_TAGS
             \/ pc' = "attributes" /\ idx' = idx /\ attr_idx' = 1
       /\ pc = "attributes"
          => \/ pc' = "tags" /\ idx' = idx + 1 /\ attr_idx > Len(content[tags[idx]].attrs)
             \/ pc' = "attributes" /\ idx' = idx /\ attr_idx' = attr_idx + 1
                   /\ ~ConditionAt(tags[idx], attr_idx)
             \/ pc' = "condition" /\ idx' = idx /\ attr_idx' = attr_idx
                   /\ ConditionAt(tags[idx], attr_idx)
       /\ pc = "closures" => pc' = "events" /\ idx' = 1 /\ Len(events') = Len(EventsOf(content, "open", "open")) + Len(EventsOf(content, "close", "close"))
       /\ pc = "events"
          => \/ pc' = "return" /\ idx > Len(events)
             \/ pc' = "events" /\ idx' = idx + 1 /\ idx <= Len(events)

\* C11, the returned list: every span and every condition attribute holding the
\* broken expression a== has its own syntax diagnostic, whatever failed before
\* it, and every opening tag of an unknown name its unknown-tag diagnostic.
C11_AllReported ==
    Finished =>
        /\ \A i \in 1..Len(content) :
              (SpanAt(i) /\ content[i].text = ExprSyntaxError)
              => Cardinality(SyntaxAt(Current, "expr-error",
                                      RangeAt(Offset(content, i), Len(content[i].text) + 2))) = 1
        /\ \A i \in 1..Len(content) :
              \A k \in 1..(IF content[i].kind = "open" THEN Len(content[i].attrs) ELSE 0) :
                 (ConditionAt(i, k) /\ content[i].attrs[k].value = ExprSyntaxError)
                 => Cardinality(SyntaxAt(Current, "condition-syntax-error",
                                         RangeAt(Offset(content, i) + ValueStart(content[i].attrs, k),
                                                 Len(content[i].attrs[k].value)))) = 1
        /\ Cardinality(WithCode(Current, "unknown-tag"))
              = Cardinality({i \in 1..Len(content) :
                                content[i].kind = "open"
                                /\ Str(TagName(content[i])) \notin VALID_TAGS})

\* how far the call of parse has come: stage, match, attribute match, and whether
\* a parser is at work on the current match
Position ==
    <<CASE pc = "collect" -> 1
        [] pc \in {"expressions", "expression"} -> 2
        [] pc \in {"tags", "attributes", "condition"} -> 3
        [] pc = "closures" -> 4
        [] pc = "events" -> 5
        [] pc = "return" -> 6
        [] OTHER -> 0,
      IF pc \in {"expressions", "expression", "tags", "attributes", "condition", "events"}
      THEN idx ELSE 0,
      IF pc \in {"attributes", "condition"} THEN attr_idx ELSE 0,
      IF pc \in {"expression", "condition"} THEN 1 ELSE 0>>

\* lexicographic order on positions
Later(a, b) ==
    \E k \in 1..4 : a[k] < b[k] /\ \A j \in 1..(k - 1) : a[j] = b[j]

\* C11, progress: a started call always has a next step, and each step moves the
\* call forward or, with the call where it is, the parser at work forward
C11_StepForward ==
    pc # "ready"
    => \/ pc' = "ready" /\ pc = "return" /\ returned' = Append(returned, diagnostics)
       \/ pc' # "ready" /\ Later(Position, Position')
       \/ UNCHANGED tvars /\ ParserAdvances

\* the methods of the recursive descent
ParserMethods ==
    {"expression", "or", "and", "comparison", "additive", "multiplicative", "unary",
     "postfix", "primary", "arguments"}

\* C11, no abort: the positions are bounded, and while a span or a condition is
\* being validated its parser is constructed, inside one of its methods, back in
\* parse, or has returned its result to the validation loop; it is never left
\* with an exception that nothing caught
C11_NeverStuck ==
    /\ idx <= Len(content) + 1
    /\ attr_idx <= 3
    /\ IF pc \in {"expression", "condition"}
       THEN \/ pstatus \in {"new", "done"}
            \/ pstatus = "running" /\ (stack = <<>> \/ Top.fn \in ParserMethods)
       ELSE pstatus = "none"

\* C11: a structural parse failure in a span or a condition attribute never aborts
\* the run: it is reported as exactly one syntax diagnostic for that occurrence,
\* every later span, opening tag and closure event is still validated, and parse
\* always returns its diagnostic list.
C11_FailuresNeverAbort ==
    [][C11_Step /\ C11_StepForward]_vars /\ []C11_AllReported /\ []C11_NeverStuck

\* parse returned for a broken span, a broken condition and a broken span after
\* them: each has its syntax diagnostic and the opening tag its unclosed-tag one
C11_Witness ==
    /\ Finished
    /\ content = <<Span(ExprSyntaxError),
                   Open(t_if, <<Attr(s_condition, "'", ExprSyntaxError)>>),
                   Span(ExprSyntaxError)>>
    /\ Cardinality(WithCode(Current, "expr-error")) = 2
    /\ Cardinality(WithCode(Current, "condition-syntax-error")) = 1
    /\ Cardinality(WithCode(Current, "unclosed-tag")) = 1
    /\ Len(Current) = 4

\* the step goes on with a loop iteration or a descent that the claim lists: an
\* operator, a comma or a postfix operator matched by a loop, a completed call or
\* index, a unary !, a parenthesis, a scanned literal or identifier
Continues ==
    /\ pstatus = "running" /\ pstatus' = "running"
    /\ stack # <<>>
    /\ \/ Top.st = "loop" /\ Len(stack') >= Len(stack)
       \/ Top.fn = "postfix" /\ Top.st \in {"call", "index"}
       \/ Top.fn = "unary" /\ Top.st = "start" /\ stack'[Len(stack')] = Frame("unary", "start")
       \/ Top.fn = "primary"

\* C12, per step: the cursor never decreases, the expression is not altered, every
\* step brings parse closer to its return, and a step that continues consumes at
\* least one character.
C12_Step ==
    pstatus \in {"new", "running"}
    => /\ pos' >= pos
       /\ expression' = expression
       /\ ParserAdvances
       /\ Continues => pos' > pos

\* C12, the cursor: 0 <= pos <= len(expression)
C12_CursorInRange == 0 <= pos /\ pos <= Len(expression)

\* C12: parse terminates on every expression (each step starts or ends it,
\* consumes input, or lowers a potential of the call stack that is bounded below),
\* the cursor stays within 0..len(expression) and never decreases, and every
\* continuing loop iteration or descent step consumes at least one character.
C12_TerminatesCursorMonotone == [][C12_Step]_vars /\ []C12_CursorInRange

\* parse returned after the loops of every tier matched an operator and the
\* cursor reached the end of the expression
C12_Witness ==
    /\ pstatus = "done"
    /\ result.is_valid
    /\ Len(expression) = 25
    /\ expression[3] = "|"
    /\ pos = Len(expression)

\* the expressions a b, a=b and a) of the claim
C13_Inputs == {<<"a", " ", "b">>, <<"a", "=", "b">>, <<"a", ")">>}

\* C13, per step: when _parse_expression returns and no list-misuse error was
\* recorded, parse returns (valid, no message) wherever the cursor is.
C13_Step ==
    (pstatus = "running" /\ stack = <<>> /\ errors = <<>>)
    => /\ pstatus' = "done"
       /\ result' = [is_valid |-> TRUE, error_msg |-> None]
       /\ pos' = pos

\* C13, the results: a parse is invalid only after a structural violation or a
\* list-misuse error; a b, a=b and a) are valid with input left after the cursor
\* and give no diagnostic, as a span or as a condition.
C13_Results ==
    pstatus = "done"
    => /\ ~result.is_valid => (Structural(result) \/ errors # <<>>)
       /\ expression \in C13_Inputs
          => /\ result = [is_valid |-> TRUE, error_msg |-> None]
             /\ errors = <<>>
             /\ pos < Len(expression)
             /\ ExpressionDiagnostics(DocumentText(<<Span(expression)>>), 0, expression,
                                      result, errors) = <<>>
             /\ ConditionDiagnostics(DocumentText(<<Span(expression)>>), 1, expression,
                                     result, errors) = <<>>

\* C13: parse never fails because of unconsumed input: once the grammar accepted a
\* prefix without a structural violation and no list-misuse error was recorded,
\* the result is (valid, no message) whatever follows the cursor.
C13_UnconsumedInputAccepted == [][C13_Step]_vars /\ []C13_Results

\* parse accepted a=b with the cursor after a
C13_Witness ==
    /\ pstatus = "done"
    /\ expression = <<"a", "=", "b">>
    /\ pos = 1
    /\ result.is_valid
    /\ errors = <<>>

====
